---- MODULE Spec2Model ----
(***************************************************************************)
(* Model of edgar_mcp_server/server.py: module start-up (provider import,  *)
(* EDGAR_USER_EMAIL, set_identity), the tool catalog, the call_tool        *)
(* dispatcher, the five tool handlers and serialize_filing_data.           *)
(*                                                                         *)
(* Python values are records [k, s, items, td]:                            *)
(*   k     the kind of value ("str", "int", "none", "bool", "date",        *)
(*         "list", "obj", "dict", "other"; "raise" stands for a call that  *)
(*         raised instead of returning),                                   *)
(*   s     str(value) (for "raise": the exception message),                *)
(*   items the elements of a list, or the <<name, value>> pairs of an      *)
(*         object's __dict__ / of a dict, in order,                        *)
(*   td    <<>> when the value has no to_dict attribute, else <<r>> with   *)
(*         r what to_dict() returns (or raises).                           *)
(* Attribute names are sequences of characters, so that startswith('_')    *)
(* is computed on the name.  A text is a sequence of lexemes [t, s].       *)
(***************************************************************************)
EXTENDS Integers, Sequences, FiniteSets, TLC

VARIABLES pc, EDGARTOOLS_AVAILABLE, EDGAR_USER_EMAIL, IDENTITY_SET, USER_EMAIL,
          startup_error, served, norm

vars == <<pc, EDGARTOOLS_AVAILABLE, EDGAR_USER_EMAIL, IDENTITY_SET, USER_EMAIL,
          startup_error, served, norm>>

(***************************************************************************)
(* Bounds of the model.                                                    *)
(***************************************************************************)
MaxListLen == 2
MaxFilings == 3
MaxLimit == 3
MaxIndex == 3

(***************************************************************************)
(* Python values.                                                          *)
(***************************************************************************)
PyVal(k, s, items, td) == [k |-> k, s |-> s, items |-> items, td |-> td]
PyStr(s) == PyVal("str", s, <<>>, <<>>)
PyInt(s) == PyVal("int", s, <<>>, <<>>)
PyNone == PyVal("none", "None", <<>>, <<>>)
PyDate(iso) == PyVal("date", iso, <<>>, <<>>)
PyOther(s) == PyVal("other", s, <<>>, <<>>)
PyList(items) == PyVal("list", "[...]", items, <<>>)
PyDict(pairs) == PyVal("dict", "{...}", pairs, <<>>)
PyObj(fields, td) == PyVal("obj", "<object>", fields, td)
Raise(msg) == PyVal("raise", msg, <<>>, <<>>)

IsRaise(v) == v.k = "raise"

\* isinstance(value, (str, int, float, bool, type(None)))
Primitive == {"str", "int", "bool", "none"}

\* the first element of a sequence that raised, for a sequence holding one
FirstRaise(seq) ==
    seq[CHOOSE i \in 1..Len(seq) :
            /\ IsRaise(seq[i])
            /\ \A j \in 1..(i - 1) : ~IsRaise(seq[j])]

AnyRaise(seq) == \E i \in 1..Len(seq) : IsRaise(seq[i])

(***************************************************************************)
(* serialize_filing_data                                                   *)
(***************************************************************************)
\* key.endswith('_')
EndsWithMarker(key) == Len(key) > 0 /\ key[Len(key)] = "_"

\* key.startswith('_')
StartsWithMarker(key) == Len(key) > 0 /\ key[1] = "_"

\* hasattr(data, 'to_dict')
HasToDict(data) == Len(data.td) > 0

\* hasattr(data, '__dict__')
HasDict(data) == data.k = "obj"

RECURSIVE serialize_filing_data(_)
RECURSIVE SerializeField(_)

\* the branch taken for one value of data.__dict__
SerializeField(value) ==
    IF value.k \in Primitive THEN value
    ELSE IF value.k = "date" THEN PyStr(value.s)
    ELSE IF value.k = "list" THEN
        LET out == [i \in 1..Len(value.items) |->
                        serialize_filing_data(value.items[i])]
        IN  IF AnyRaise(out) THEN FirstRaise(out) ELSE PyList(out)
    ELSE IF HasDict(value) THEN serialize_filing_data(value)
    ELSE PyStr(value.s)

serialize_filing_data(data) ==
    IF HasToDict(data) THEN data.td[1]
    ELSE IF HasDict(data) THEN
        LET kept == SelectSeq(data.items, LAMBDA f : ~StartsWithMarker(f[1]))
            vals == [i \in 1..Len(kept) |-> SerializeField(kept[i][2])]
        IN  IF AnyRaise(vals) THEN FirstRaise(vals)
            ELSE PyDict([i \in 1..Len(kept) |-> <<kept[i][1], vals[i]>>])
    ELSE PyStr(data.s)

(***************************************************************************)
(* Texts and json.dumps                                                    *)
(***************************************************************************)
Tok(t, s) == [t |-> t, s |-> s]
Word(s) == Tok("word", s)
Punct(s) == Tok("punct", s)

RECURSIVE NameStr(_)
\* the string spelled by a sequence of characters
NameStr(name) == IF name = <<>> THEN "" ELSE name[1] \o NameStr(Tail(name))

RECURSIVE Encodable(_)
\* json.dumps raises TypeError on a value it has no encoding for
Encodable(v) ==
    \/ v.k \in Primitive
    \/ /\ v.k = "list"
       /\ \A i \in 1..Len(v.items) : Encodable(v.items[i])
    \/ /\ v.k = "dict"
       /\ \A i \in 1..Len(v.items) : Encodable(v.items[i][2])

RECURSIVE Encode(_)
RECURSIVE EncodeItems(_)
RECURSIVE EncodePairs(_)

EncodeItems(items) ==
    IF items = <<>> THEN <<>>
    ELSE Encode(items[1])
         \o (IF Len(items) > 1 THEN <<Punct(",")>> ELSE <<>>)
         \o EncodeItems(Tail(items))

EncodePairs(pairs) ==
    IF pairs = <<>> THEN <<>>
    ELSE <<Tok("str", NameStr(pairs[1][1])), Punct(":")>> \o Encode(pairs[1][2])
         \o (IF Len(pairs) > 1 THEN <<Punct(",")>> ELSE <<>>)
         \o EncodePairs(Tail(pairs))

Encode(v) ==
    IF v.k = "str" THEN <<Tok("str", v.s)>>
    ELSE IF v.k = "int" THEN <<Tok("num", v.s)>>
    ELSE IF v.k = "bool" THEN <<Tok("lit", v.s)>>
    ELSE IF v.k = "none" THEN <<Tok("lit", "null")>>
    ELSE IF v.k = "list" THEN <<Punct("[")>> \o EncodeItems(v.items) \o <<Punct("]")>>
    ELSE <<Punct("{")>> \o EncodePairs(v.items) \o <<Punct("}")>>

\* str(value) of a list or dict: Python's repr, not JSON
PyRepr(v) == [ok |-> TRUE, text |-> <<Word(v.s)>>, msg |-> ""]

\* json.dumps(v, indent=2): the text, or the TypeError it raises
json_dumps(v) ==
    IF Encodable(v) THEN [ok |-> TRUE, text |-> Encode(v), msg |-> ""]
    ELSE [ok |-> FALSE, text |-> <<>>, msg |-> "not JSON serializable"]

(***************************************************************************)
(* Requests: the argument mapping of a tool call.  keys is the set of keys *)
(* the mapping holds; the other fields are the values of those keys.       *)
(***************************************************************************)
NoArgs == [keys |-> {}, ticker |-> "", form |-> "", limit |-> 0, filing_index |-> 0]

\* arguments.get(key) of a string-valued key: None when the key is absent
GetStr(arguments, key) ==
    IF key \in arguments.keys THEN PyStr(arguments[key]) ELSE PyNone

\* arguments.get(key, default) of an integer-valued key
GetInt(arguments, key, default) ==
    IF key \in arguments.keys THEN arguments[key] ELSE default

\* Python truth value of a str or None
Truthy(v) == v.k = "str" /\ v.s # ""

DefaultLimitFilings == 10
DefaultLimitInsider == 20
DefaultFilingIndex == 0
TextLimit == 10000

(***************************************************************************)
(* The provider (the edgar library), as the handlers use it.               *)
(***************************************************************************)
Min(a, b) == IF a < b THEN a ELSE b
Max(a, b) == IF a > b THEN a ELSE b

\* seq[:n] of a Python sequence
PySlicePrefix(seq, n) ==
    SubSeq(seq, 1, IF n < 0 THEN Max(Len(seq) + n, 0) ELSE Min(n, Len(seq)))

\* seq[i] of a Python sequence is defined for -len <= i < len
PyIndexDefined(seq, i) == -Len(seq) <= i /\ i < Len(seq)

\* filings.filter(form=form)
FilterForm(filings, form) == SelectSeq(filings, LAMBDA f : f.form = form)

Absent == PyVal("absent", "", <<>>, <<>>)

\* a filing: its form and the attributes get_company_filings reads
Filing(form, acc, filing_date, period) ==
    [form |-> form, accession_number |-> acc, filing_date |-> filing_date,
     period_of_report |-> period]

FilingKinds == {"form4", "annual", "bare"}

MkFiling(kind, i) ==
    IF kind = "form4"
        THEN Filing("4", PyStr(ToString(i)), PyDate("2024-02-01"), PyStr("2024-01-31"))
    ELSE IF kind = "annual"
        THEN Filing("10-K", PyStr(ToString(i)), PyDate("2024-03-01"), Absent)
    ELSE Filing("10-K", PyStr(ToString(i)), Absent, PyDate("2023-12-31"))

\* what company.get_filings() can return: up to MaxFilings filings
FilingWorlds ==
    UNION {{[i \in 1..n |-> MkFiling(ks[i], i)] : ks \in [1..n -> FilingKinds]}
            : n \in 0..MaxFilings}

\* an attribute of the company object, or Absent
Attr(obj, name) ==
    IF \E i \in 1..Len(obj.items) : obj.items[i][1] = name
    THEN obj.items[CHOOSE i \in 1..Len(obj.items) : obj.items[i][1] = name][2]
    ELSE Absent

\* getattr(obj, name, 'N/A')
GetAttrOrNA(v) == IF v.k = "absent" THEN PyStr("N/A") ELSE v

\* attribute and key names, as sequences of characters
N_name == <<"n","a","m","e">>
N_ticker == <<"t","i","c","k","e","r">>
N_cik == <<"c","i","k">>
N_sic == <<"s","i","c">>
N_industry == <<"i","n","d","u","s","t","r","y">>
N_form == <<"f","o","r","m">>
N_filing_date == <<"f","i","l","i","n","g","_","d","a","t","e">>
N_accession_number == <<"a","c","c","e","s","s","i","o","n","_","n","u","m","b","e","r">>
N_period_of_report == <<"p","e","r","i","o","d","_","o","f","_","r","e","p","o","r","t">>
N_owner == <<"o","w","n","e","r">>
N_id == <<"_","i","d">>
N_day == <<"d","a","y">>

\* what Company(ticker) can do
CompanyOutcomes ==
    { Raise("company not found"),
      PyObj(<< <<N_name, PyStr("Apple Inc.")>>,
               <<N_cik, PyStr("0000320193")>>,
               <<N_sic, PyStr("3571")>>,
               <<N_industry, PyStr("Electronic Computers")>> >>, <<>>),
      PyObj(<< <<N_name, PyStr("Apple Inc.")>>,
               <<N_cik, PyStr("0000320193")>> >>, <<>>),
      PyObj(<< <<N_name, PyStr("Apple Inc.")>>,
               <<N_cik, PyOther("Decimal('320193')")>> >>, <<>>) }

\* what filing.text() can do: raise, or return a text of len characters
\* whose first lexemes are toks
TextOutcome(ok, len, toks, msg) == [ok |-> ok, len |-> len, toks |-> toks, msg |-> msg]

TextOutcomes ==
    { TextOutcome(FALSE, 0, <<>>, "text unavailable"),
      TextOutcome(TRUE, 13, <<Word("Annual"), Word("report")>>, ""),
      TextOutcome(TRUE, 2, <<Tok("num", "42")>>, ""),
      TextOutcome(TRUE, TextLimit + 1, <<Word("Annual"), Word("report")>>, "") }

\* what filing.obj() can do: raise, or return a domain object
ObjOutcomes ==
    { Raise("obj unavailable"),
      PyObj(<< <<N_owner, PyStr("Jane Doe")>>,
               <<N_id, PyInt("7")>>,
               <<N_day, PyDate("2024-02-01")>> >>, <<>>),
      PyObj(<<>>, << PyDict(<< <<N_id, PyInt("7")>> >>) >>),
      PyObj(<<>>, << PyDict(<< <<N_day, PyDate("2024-02-01")>> >>) >>),
      PyObj(<<>>, << Raise("to_dict failed") >>) }

NoProv == [fail |-> "none", company |-> PyNone, filings |-> <<>>,
           text |-> TextOutcome(FALSE, 0, <<>>, ""), obj |-> PyNone, objs |-> <<>>]

\* the provider step that raises before the collection is obtained, when
\* one does (prov.fail; "none" when none does)
FailPoints == {"Company", "get_filings", "filter"}

(***************************************************************************)
(* What one run of a handler did: the content blocks it returned (ret),    *)
(* the message of the exception it raised instead (exc), the provider      *)
(* calls it made (calls), the collection it obtained (fetched, filings),   *)
(* the indexes it evaluated filings[i] with (selected), the filings its    *)
(* loop went through (processed), the list it built (results) and the      *)
(* return statement it left by (path).                                     *)
(***************************************************************************)
Run0 == [ret |-> <<>>, exc |-> "", calls |-> <<>>, fetched |-> FALSE,
         filings |-> <<>>, selected |-> <<>>, processed |-> <<>>,
         results |-> <<>>, path |-> ""]

TextContent(text) == [type |-> "text", text |-> text]

Returned(run, text, path) ==
    [run EXCEPT !.ret = <<TextContent(text)>>, !.path = path]

Raised(run, msg) == [run EXCEPT !.exc = msg, !.path = "raised"]

\* ensure_identity(): the message of the RuntimeError it raises, "" if none
ensure_identity ==
    IF ~IDENTITY_SET THEN "User identity not set" ELSE ""

\* Company(ticker), company.get_filings() and, when filtered, .filter(form=form)
Fetch(prov, filtered, form) ==
    IF prov.fail = "Company"
        THEN [exc |-> "company not found", calls |-> <<"Company">>, filings |-> <<>>]
    ELSE IF prov.fail = "get_filings"
        THEN [exc |-> "get_filings failed", calls |-> <<"Company", "get_filings">>,
              filings |-> <<>>]
    ELSE IF ~filtered
        THEN [exc |-> "", calls |-> <<"Company", "get_filings">>,
              filings |-> prov.filings]
    ELSE IF prov.fail = "filter"
        THEN [exc |-> "filter failed",
              calls |-> <<"Company", "get_filings", "filter">>, filings |-> <<>>]
    ELSE [exc |-> "", calls |-> <<"Company", "get_filings", "filter">>,
          filings |-> FilterForm(prov.filings, form)]

handle_get_company_info(arguments, prov) ==
    LET ticker == GetStr(arguments, "ticker")
        run == [Run0 EXCEPT !.calls = <<"Company">>]
        company == prov.company
        info == PyDict(<< <<N_name, GetAttrOrNA(Attr(company, N_name))>>,
                          <<N_ticker, ticker>>,
                          <<N_cik, GetAttrOrNA(Attr(company, N_cik))>>,
                          <<N_sic, GetAttrOrNA(Attr(company, N_sic))>>,
                          <<N_industry, GetAttrOrNA(Attr(company, N_industry))>> >>)
        dumped == json_dumps(info)
    IN  IF ensure_identity # "" THEN Raised(Run0, ensure_identity)
        ELSE IF ~Truthy(ticker)
            THEN Returned(Run0, <<Word("Ticker is required")>>, "missing")
        ELSE IF IsRaise(company)
            THEN Returned(run, <<Word("Error getting company info:"), Word(company.s)>>,
                          "error")
        ELSE IF ~dumped.ok
            THEN Returned(run, <<Word("Error getting company info:"), Word(dumped.msg)>>,
                          "error")
        ELSE Returned(run, dumped.text, "success")

\* the dict built for one filing
FilingData(filing) ==
    PyDict(<< <<N_form, PyStr(filing.form)>>,
              <<N_filing_date, IF filing.filing_date.k = "absent" THEN PyStr("N/A")
                               ELSE PyStr(filing.filing_date.s)>>,
              <<N_accession_number, GetAttrOrNA(filing.accession_number)>>,
              <<N_period_of_report, GetAttrOrNA(filing.period_of_report)>> >>)

\* if form:
FormGiven(form) == Truthy(form)

\* filings[:limit + 1]
LimitSliceOffByOne(filings, limit) == PySlicePrefix(filings, limit + 1)

\* filings[:limit]
LimitSlice(filings, limit) == PySlicePrefix(filings, limit)

handle_get_company_filings(arguments, prov) ==
    LET ticker == GetStr(arguments, "ticker")
        form == GetStr(arguments, "form")
        limit == GetInt(arguments, "limit", DefaultLimitFilings)
        got == Fetch(prov, FormGiven(form), form.s)
        slice == LimitSlice(got.filings, limit)
        results == [i \in 1..Len(slice) |-> FilingData(slice[i])]
        run == [Run0 EXCEPT !.calls = got.calls]
        done == [run EXCEPT !.fetched = TRUE, !.filings = got.filings,
                            !.processed = slice, !.results = results]
        dumped == json_dumps(PyList(results))
    IN  IF ensure_identity # "" THEN Raised(Run0, ensure_identity)
        ELSE IF ~Truthy(ticker)
            THEN Returned(Run0, <<Word("Ticker is required")>>, "missing")
        ELSE IF got.exc # ""
            THEN Returned(run, <<Word("Error getting filings:"), Word(got.exc)>>, "error")
        ELSE IF ~dumped.ok
            THEN Returned(done, <<Word("Error getting filings:"), Word(dumped.msg)>>,
                          "error")
        ELSE Returned(done, dumped.text, "success")

\* not ticker and not form
MissingBoth(ticker, form) == ~Truthy(ticker) /\ ~Truthy(form)

\* not ticker or not form
MissingEither(ticker, form) == ~Truthy(ticker) \/ ~Truthy(form)

\* filing_index > len(filings)
IndexPastEnd(filing_index, n) == filing_index > n

\* filing_index >= len(filings)
IndexOutOfRange(filing_index, n) == filing_index >= n

\* text[:10000] + "..." if len(text) > 10000 else text
Truncated(text) ==
    IF text.len > TextLimit THEN text.toks \o <<Word("...")>> ELSE text.toks

handle_get_filing_text(arguments, prov) ==
    LET ticker == GetStr(arguments, "ticker")
        form == GetStr(arguments, "form")
        filing_index == GetInt(arguments, "filing_index", DefaultFilingIndex)
        got == Fetch(prov, TRUE, form.s)
        run == [Run0 EXCEPT !.calls = got.calls]
        have == [run EXCEPT !.fetched = TRUE, !.filings = got.filings]
        picked == [have EXCEPT !.selected = <<filing_index>>]
        read == [picked EXCEPT !.calls = @ \o <<"text">>]
        err(r, msg) == Returned(r, <<Word("Error getting filing text:"), Word(msg)>>,
                                "error")
    IN  IF ensure_identity # "" THEN Raised(Run0, ensure_identity)
        ELSE IF MissingEither(ticker, form)
            THEN Returned(Run0, <<Word("Ticker and form are required")>>, "missing")
        ELSE IF got.exc # "" THEN err(run, got.exc)
        ELSE IF IndexOutOfRange(filing_index, Len(got.filings))
            THEN Returned(have, <<Word("Filing index"), Tok("num", ToString(filing_index)),
                                  Word("out of range")>>, "range")
        ELSE IF ~PyIndexDefined(got.filings, filing_index)
            THEN err(picked, "index out of range")
        ELSE IF ~prov.text.ok THEN err(read, prov.text.msg)
        ELSE Returned(read, Truncated(prov.text), "success")

\* obj() and serialize_filing_data of one filing: the item, or what was raised
ExtractItem(obj) == IF IsRaise(obj) THEN obj ELSE serialize_filing_data(obj)

\* the loop with the failure of one filing ending it
InsiderResultsUntilFailure(objs) ==
    LET items == [i \in 1..Len(objs) |-> ExtractItem(objs[i])]
    IN  IF AnyRaise(items)
        THEN SubSeq(items, 1,
                    (CHOOSE i \in 1..Len(items) :
                        /\ IsRaise(items[i])
                        /\ \A j \in 1..(i - 1) : ~IsRaise(items[j])) - 1)
        ELSE items

\* the loop over insider_filings[:limit]: the results list after it
InsiderResults(objs) ==
    SelectSeq([i \in 1..Len(objs) |-> ExtractItem(objs[i])], LAMBDA x : ~IsRaise(x))

handle_get_insider_transactions(arguments, prov) ==
    LET ticker == GetStr(arguments, "ticker")
        limit == GetInt(arguments, "limit", DefaultLimitInsider)
        got == Fetch(prov, TRUE, "4")
        slice == PySlicePrefix(got.filings, limit)
        objs == [i \in 1..Len(slice) |-> prov.objs[i]]
        results == InsiderResults(objs)
        run == [Run0 EXCEPT !.calls = got.calls]
        done == [run EXCEPT !.fetched = TRUE, !.filings = got.filings,
                            !.processed = slice, !.results = results,
                            !.calls = @ \o [i \in 1..Len(slice) |-> "obj"]]
        dumped == json_dumps(PyList(results))
        err(r, msg) == Returned(r, <<Word("Error getting insider transactions:"),
                                     Word(msg)>>, "error")
    IN  IF ensure_identity # "" THEN Raised(Run0, ensure_identity)
        ELSE IF ~Truthy(ticker)
            THEN Returned(Run0, <<Word("Ticker is required")>>, "missing")
        ELSE IF got.exc # "" THEN err(run, got.exc)
        ELSE IF ~dumped.ok THEN err(done, dumped.msg)
        ELSE Returned(done, dumped.text, "success")

handle_get_financial_statements(arguments, prov) ==
    LET ticker == GetStr(arguments, "ticker")
        form == GetStr(arguments, "form")
        filing_index == GetInt(arguments, "filing_index", DefaultFilingIndex)
        got == Fetch(prov, TRUE, form.s)
        run == [Run0 EXCEPT !.calls = got.calls]
        have == [run EXCEPT !.fetched = TRUE, !.filings = got.filings]
        picked == [have EXCEPT !.selected = <<filing_index>>]
        read == [picked EXCEPT !.calls = @ \o <<"obj">>]
        financial_data == ExtractItem(prov.obj)
        dumped == json_dumps(financial_data)
        err(r, msg) == Returned(r, <<Word("Error getting financial statements:"),
                                     Word(msg)>>, "error")
    IN  IF ensure_identity # "" THEN Raised(Run0, ensure_identity)
        ELSE IF MissingEither(ticker, form)
            THEN Returned(Run0, <<Word("Ticker and form are required")>>, "missing")
        ELSE IF got.exc # "" THEN err(run, got.exc)
        ELSE IF IndexOutOfRange(filing_index, Len(got.filings))
            THEN Returned(have, <<Word("Filing index"), Tok("num", ToString(filing_index)),
                                  Word("out of range")>>, "range")
        ELSE IF ~PyIndexDefined(got.filings, filing_index)
            THEN err(picked, "index out of range")
        ELSE IF IsRaise(financial_data) THEN err(read, financial_data.s)
        ELSE IF ~dumped.ok THEN err(read, dumped.msg)
        ELSE Returned(read, dumped.text, "success")

(***************************************************************************)
(* The tool catalog and the dispatcher                                     *)
(***************************************************************************)
Tool(name, required) == [name |-> name, required |-> required]

list_tools ==
    IF ~EDGARTOOLS_AVAILABLE THEN <<Tool("error", {})>>
    ELSE << Tool("get_company_info", {"ticker"}),
            Tool("get_company_filings", {"ticker"}),
            Tool("get_filing_text", {"ticker", "form"}),
            Tool("get_insider_transactions", {"ticker"}),
            Tool("get_financial_statements", {"ticker", "form"}) >>

Unavailable == <<Word("EdgarTools library not available.")>>

\* the if/elif chain without its else: an unknown name falls through (None)
DispatchNoElse(name, arguments, prov) ==
    IF name = "get_company_info" THEN handle_get_company_info(arguments, prov)
    ELSE IF name = "get_company_filings" THEN handle_get_company_filings(arguments, prov)
    ELSE IF name = "get_filing_text" THEN handle_get_filing_text(arguments, prov)
    ELSE IF name = "get_insider_transactions"
        THEN handle_get_insider_transactions(arguments, prov)
    ELSE IF name = "get_financial_statements"
        THEN handle_get_financial_statements(arguments, prov)
    ELSE [Run0 EXCEPT !.path = "unknown"]

\* the if/elif chain of call_tool
Dispatch(name, arguments, prov) ==
    IF name = "get_company_info" THEN handle_get_company_info(arguments, prov)
    ELSE IF name = "get_company_filings" THEN handle_get_company_filings(arguments, prov)
    ELSE IF name = "get_filing_text" THEN handle_get_filing_text(arguments, prov)
    ELSE IF name = "get_insider_transactions"
        THEN handle_get_insider_transactions(arguments, prov)
    ELSE IF name = "get_financial_statements"
        THEN handle_get_financial_statements(arguments, prov)
    ELSE Returned(Run0, <<Word("Unknown tool:"), Word(name)>>, "unknown")

call_tool(name, arguments, prov) ==
    IF ~EDGARTOOLS_AVAILABLE THEN Returned(Run0, Unavailable, "unavailable")
    ELSE LET run == Dispatch(name, arguments, prov)
         IN  IF run.exc # ""
             THEN [run EXCEPT !.ret = <<TextContent(<<Word("Error:"), Word(run.exc)>>)>>,
                              !.exc = "", !.path = "backstop"]
             ELSE run

(***************************************************************************)
(* State.  pc is the position of module start-up ("import", "env",         *)
(* "identity"), then "ready" (the transport serves requests) or "failed"   *)
(* (the module raised).  served is the request being answered: the         *)
(* operation, its inputs, what the provider did and what the handler did.  *)
(***************************************************************************)
Idle == [op |-> "none", name |-> "", arguments |-> NoArgs, prov |-> NoProv,
         run |-> Run0, tools |-> <<>>]

NormIdle == [phase |-> "idle", data |-> PyNone, out |-> PyNone]

Init ==
    /\ pc = "import"
    /\ EDGARTOOLS_AVAILABLE = FALSE
    /\ EDGAR_USER_EMAIL = PyNone
    /\ IDENTITY_SET = FALSE
    /\ USER_EMAIL = PyNone
    /\ startup_error = "none"
    /\ served = Idle
    /\ norm = NormIdle

\* os.getenv('EDGAR_USER_EMAIL')
EnvValues == {PyNone, PyStr(""), PyStr("dev@example.com")}

\* try: from edgar import ... / except ImportError
ImportEdgar ==
    /\ pc = "import"
    /\ \E ok \in BOOLEAN : EDGARTOOLS_AVAILABLE' = ok
    /\ pc' = "env"
    /\ UNCHANGED <<EDGAR_USER_EMAIL, IDENTITY_SET, USER_EMAIL, startup_error, served, norm>>

\* the environment variable read without the check that it is set
ReadEnvUnchecked ==
    /\ pc = "env"
    /\ \E e \in EnvValues : EDGAR_USER_EMAIL' = e
    /\ pc' = "identity"
    /\ UNCHANGED <<EDGARTOOLS_AVAILABLE, IDENTITY_SET, USER_EMAIL, startup_error, served, norm>>

ReadEnv ==
    /\ pc = "env"
    /\ \E e \in EnvValues :
        /\ EDGAR_USER_EMAIL' = e
        /\ IF ~Truthy(e)
           THEN pc' = "failed" /\ startup_error' = "ValueError"
           ELSE pc' = "identity" /\ UNCHANGED startup_error
    /\ UNCHANGED <<EDGARTOOLS_AVAILABLE, IDENTITY_SET, USER_EMAIL, served, norm>>

\* try: set_identity(EDGAR_USER_EMAIL) ... except Exception: raise
\* set_identity is bound by the import only: without it the call is a NameError
SetIdentity ==
    /\ pc = "identity"
    /\ \E raises \in BOOLEAN :
        IF ~EDGARTOOLS_AVAILABLE
        THEN /\ pc' = "failed"
             /\ startup_error' = "NameError"
             /\ UNCHANGED <<IDENTITY_SET, USER_EMAIL>>
        ELSE IF raises
        THEN /\ pc' = "failed"
             /\ startup_error' = "set_identity"
             /\ UNCHANGED <<IDENTITY_SET, USER_EMAIL>>
        ELSE /\ pc' = "ready"
             /\ IDENTITY_SET' = TRUE
             /\ USER_EMAIL' = EDGAR_USER_EMAIL
             /\ UNCHANGED startup_error
    /\ UNCHANGED <<EDGARTOOLS_AVAILABLE, EDGAR_USER_EMAIL, served, norm>>

Serving == pc = "ready" /\ served.op = "none"

ListTools ==
    /\ Serving
    /\ served' = [Idle EXCEPT !.op = "list_tools", !.tools = list_tools]
    /\ UNCHANGED <<pc, EDGARTOOLS_AVAILABLE, EDGAR_USER_EMAIL, IDENTITY_SET, USER_EMAIL,
                   startup_error, norm>>

\* the request answered by call_tool
Answered(name, arguments, prov) ==
    [op |-> "call_tool", name |-> name, arguments |-> arguments, prov |-> prov,
     run |-> call_tool(name, arguments, prov), tools |-> <<>>]

\* the inputs a client can send
Tickers == {"", "AAPL"}
Forms == {"", "4", "10-K"}
Limits == -1..MaxLimit
Indexes == -MaxIndex..MaxIndex

ArgsOver(allowed) ==
    {[keys |-> K,
      ticker |-> IF "ticker" \in K THEN t ELSE "",
      form |-> IF "form" \in K THEN f ELSE "",
      limit |-> IF "limit" \in K THEN l ELSE 0,
      filing_index |-> IF "filing_index" \in K THEN x ELSE 0] :
        K \in SUBSET allowed, t \in Tickers, f \in Forms, l \in Limits, x \in Indexes}

\* the provider is reached only with the required arguments given
Reaches(arguments, required) ==
    \A key \in required : Truthy(GetStr(arguments, key))

FetchScenarios ==
    {[NoProv EXCEPT !.fail = f] : f \in FailPoints}
        \cup {[NoProv EXCEPT !.filings = w] : w \in FilingWorlds}

CallGetCompanyInfo ==
    /\ Serving
    /\ \E a \in ArgsOver({"ticker"}) :
            \E c \in (IF Reaches(a, {"ticker"}) THEN CompanyOutcomes ELSE {PyNone}) :
                served' = Answered("get_company_info", a, [NoProv EXCEPT !.company = c])
    /\ UNCHANGED <<pc, EDGARTOOLS_AVAILABLE, EDGAR_USER_EMAIL, IDENTITY_SET, USER_EMAIL,
                   startup_error, norm>>

CallGetCompanyFilings ==
    /\ Serving
    /\ \E a \in ArgsOver({"ticker", "form", "limit"}) :
            \E p \in (IF Reaches(a, {"ticker"}) THEN FetchScenarios ELSE {NoProv}) :
                served' = Answered("get_company_filings", a, p)
    /\ UNCHANGED <<pc, EDGARTOOLS_AVAILABLE, EDGAR_USER_EMAIL, IDENTITY_SET, USER_EMAIL,
                   startup_error, norm>>

CallGetFilingText ==
    /\ Serving
    /\ \E a \in ArgsOver({"ticker", "form", "filing_index"}) :
            \E p \in (IF Reaches(a, {"ticker", "form"}) THEN FetchScenarios ELSE {NoProv}) :
                \E t \in (IF p.fail = "none" /\ p.filings # <<>> THEN TextOutcomes
                          ELSE {NoProv.text}) :
                    served' = Answered("get_filing_text", a, [p EXCEPT !.text = t])
    /\ UNCHANGED <<pc, EDGARTOOLS_AVAILABLE, EDGAR_USER_EMAIL, IDENTITY_SET, USER_EMAIL,
                   startup_error, norm>>

CallGetInsiderTransactions ==
    /\ Serving
    /\ \E a \in ArgsOver({"ticker", "limit"}) :
            \E p \in (IF Reaches(a, {"ticker"}) THEN FetchScenarios ELSE {NoProv}) :
                LET n == Len(PySlicePrefix(FilterForm(p.filings, "4"),
                                           GetInt(a, "limit", DefaultLimitInsider)))
                IN  \E objs \in [1..n -> ObjOutcomes] :
                        served' = Answered("get_insider_transactions", a,
                                           [p EXCEPT !.objs = objs])
    /\ UNCHANGED <<pc, EDGARTOOLS_AVAILABLE, EDGAR_USER_EMAIL, IDENTITY_SET, USER_EMAIL,
                   startup_error, norm>>

CallGetFinancialStatements ==
    /\ Serving
    /\ \E a \in ArgsOver({"ticker", "form", "filing_index"}) :
            \E p \in (IF Reaches(a, {"ticker", "form"}) THEN FetchScenarios ELSE {NoProv}) :
                \E o \in (IF p.fail = "none" /\ p.filings # <<>> THEN ObjOutcomes
                          ELSE {NoProv.obj}) :
                    served' = Answered("get_financial_statements", a, [p EXCEPT !.obj = o])
    /\ UNCHANGED <<pc, EDGARTOOLS_AVAILABLE, EDGAR_USER_EMAIL, IDENTITY_SET, USER_EMAIL,
                   startup_error, norm>>

UnknownNames == {"", "get_company", "error"}

CallUnknownTool ==
    /\ Serving
    /\ \E name \in UnknownNames : \E a \in ArgsOver({"ticker"}) :
            served' = Answered(name, a, NoProv)
    /\ UNCHANGED <<pc, EDGARTOOLS_AVAILABLE, EDGAR_USER_EMAIL, IDENTITY_SET, USER_EMAIL,
                   startup_error, norm>>

\* the transport writes the response; nothing of the call is kept
Respond ==
    /\ served.op # "none"
    /\ served' = Idle
    /\ UNCHANGED <<pc, EDGARTOOLS_AVAILABLE, EDGAR_USER_EMAIL, IDENTITY_SET, USER_EMAIL,
                   startup_error, norm>>

Next ==
    \/ ImportEdgar
    \/ ReadEnv
    \/ SetIdentity
    \/ ListTools
    \/ CallGetCompanyInfo
    \/ CallGetCompanyFilings
    \/ CallGetFilingText
    \/ CallGetInsiderTransactions
    \/ CallGetFinancialStatements
    \/ CallUnknownTool
    \/ Respond

Spec == Init /\ [][Next]_vars

(***************************************************************************)
(* serialize_filing_data on its own: the inputs are the values built from  *)
(* the names and leaves below, the action applies the function.            *)
(***************************************************************************)
N_x == <<"x">>
N_p == <<"_", "p">>
N_q == <<"_", "_", "q">>
N_y == <<"y", "_">>
N_z == <<"_", "z">>

TopOrder == <<N_x, N_p, N_q>>
NestedOrder == <<N_y, N_z>>

Range(seq) == {seq[i] : i \in 1..Len(seq)}

\* the __dict__ holding the attributes f is defined on, in the given order
FieldsOf(order, f) ==
    LET present == SelectSeq(order, LAMBDA n : n \in DOMAIN f)
    IN  [i \in 1..Len(present) |-> <<present[i], f[present[i]]>>]

ObjectsOver(order, values) ==
    UNION {{PyObj(FieldsOf(order, f), <<>>) : f \in [S -> values]}
            : S \in SUBSET Range(order)}

Leaves == {PyInt("1"), PyDate("2024-02-01"), PyOther("Decimal('1')")}

NestedObjs == ObjectsOver(NestedOrder, {PyInt("1"), PyOther("Decimal('1')")})

ToDictResults ==
    { PyDict(<< <<N_p, PyInt("1")>> >>),
      PyDict(<< <<N_x, PyDate("2024-02-01")>> >>),
      Raise("to_dict failed") }

ToDictObjs == {PyObj(<< <<N_q, PyInt("1")>> >>, <<r>>) : r \in ToDictResults}

ListElems ==
    { PyObj(<< <<N_y, PyInt("1")>>, <<N_z, PyInt("2")>> >>, <<>>),
      PyObj(<<>>, << PyDict(<< <<N_p, PyInt("1")>> >>) >>) }

Lists == {PyList(l) : l \in UNION {[1..n -> ListElems] : n \in 0..MaxListLen}}

FieldValues == Leaves \cup NestedObjs \cup ToDictObjs \cup Lists

NormInputs ==
    ObjectsOver(TopOrder, FieldValues) \cup ToDictObjs \cup Leaves
        \cup {PyStr("text"), PyNone, PyList(<<>>)}

InitNorm ==
    /\ pc = "import"
    /\ EDGARTOOLS_AVAILABLE = FALSE
    /\ EDGAR_USER_EMAIL = PyNone
    /\ IDENTITY_SET = FALSE
    /\ USER_EMAIL = PyNone
    /\ startup_error = "none"
    /\ served = Idle
    /\ \E d \in NormInputs : norm = [phase |-> "input", data |-> d, out |-> PyNone]

Normalize ==
    /\ norm.phase = "input"
    /\ norm' = [norm EXCEPT !.phase = "done", !.out = serialize_filing_data(norm.data)]
    /\ UNCHANGED <<pc, EDGARTOOLS_AVAILABLE, EDGAR_USER_EMAIL, IDENTITY_SET, USER_EMAIL,
                   startup_error, served>>

NextNorm == Normalize

SpecNorm == InitNorm /\ [][NextNorm]_vars

(***************************************************************************)
(* Properties.                                                             *)
(***************************************************************************)
\* the lexemes of JSON's punctuation
IsPunct(tok, s) == tok.t = "punct" /\ tok.s = s

RECURSIVE ParseValue(_, _)
RECURSIVE ParseElements(_, _)
RECURSIVE ParseMembers(_, _)

\* the position after the JSON value starting at text[i]; 0 when there is none
ParseValue(text, i) ==
    IF i > Len(text) THEN 0
    ELSE IF text[i].t \in {"str", "num", "lit"} THEN i + 1
    ELSE IF IsPunct(text[i], "[") THEN
        IF i + 1 <= Len(text) /\ IsPunct(text[i + 1], "]") THEN i + 2
        ELSE ParseElements(text, i + 1)
    ELSE IF IsPunct(text[i], "{") THEN
        IF i + 1 <= Len(text) /\ IsPunct(text[i + 1], "}") THEN i + 2
        ELSE ParseMembers(text, i + 1)
    ELSE 0

ParseElements(text, i) ==
    LET j == ParseValue(text, i)
    IN  IF j = 0 \/ j > Len(text) THEN 0
        ELSE IF IsPunct(text[j], ",") THEN ParseElements(text, j + 1)
        ELSE IF IsPunct(text[j], "]") THEN j + 1
        ELSE 0

ParseMembers(text, i) ==
    IF i + 1 > Len(text) \/ text[i].t # "str" \/ ~IsPunct(text[i + 1], ":") THEN 0
    ELSE LET j == ParseValue(text, i + 2)
         IN  IF j = 0 \/ j > Len(text) THEN 0
             ELSE IF IsPunct(text[j], ",") THEN ParseMembers(text, j + 1)
             ELSE IF IsPunct(text[j], "}") THEN j + 1
             ELSE 0

\* text is one JSON value and nothing else
IsValidJson(text) == ParseValue(text, 1) = Len(text) + 1

ToolNames == {"get_company_info", "get_company_filings", "get_filing_text",
              "get_insider_transactions", "get_financial_statements"}

IndexedTools == {"get_filing_text", "get_financial_statements"}

Called(name) == served.op = "call_tool" /\ served.name = name

\* the one text block a call returned
OneText(text) == <<[type |-> "text", text |-> text]>>

\* the required arguments of a tool
RequiredOf(name) == IF name \in IndexedTools THEN {"ticker", "form"} ELSE {"ticker"}

\* C1: every call_tool invocation, whatever the name, the arguments and the
\* outcome of the provider calls, returns exactly one text content block and
\* lets no exception out.
C1_OneTextBlock ==
    served.op = "call_tool" =>
        /\ served.run.exc = ""
        /\ Len(served.run.ret) = 1
        /\ served.run.ret[1].type = "text"

\* C1 witness: a call whose provider raised has been answered, and so has a
\* call of a name that is no tool.
C1_Witness ==
    /\ Called("get_financial_statements")
    /\ served.prov.fail = "get_filings"
    /\ served.run.calls = <<"Company", "get_filings">>
    /\ Len(served.run.ret) = 1

\* C2: a provider call is made only with IDENTITY_SET true; requests are
\* served only after a start-up that found a non-empty EDGAR_USER_EMAIL and
\* whose set_identity returned; a start-up that raised serves nothing.
C2_IdentityBeforeProvider ==
    /\ (served.op = "call_tool" /\ served.run.calls # <<>>) => IDENTITY_SET
    /\ served.op # "none" => pc = "ready"
    /\ pc = "ready" => (IDENTITY_SET /\ Truthy(EDGAR_USER_EMAIL) /\ startup_error = "none")
    /\ (pc \notin {"import", "env"} /\ ~Truthy(EDGAR_USER_EMAIL)) => pc = "failed"
    /\ startup_error # "none" => (pc = "failed" /\ ~IDENTITY_SET)

\* C2 witness: a handler has made provider calls.
C2_Witness ==
    /\ Called("get_company_info")
    /\ served.run.calls = <<"Company">>
    /\ IDENTITY_SET

\* C3: with the import of the provider failed (and the identity given),
\* start-up ends serving; list_tools then returns the one descriptor "error"
\* and call_tool the unavailability text, with no handler run.
C3_DegradedServing ==
    /\ (pc \in {"ready", "failed"} /\ ~EDGARTOOLS_AVAILABLE /\ Truthy(EDGAR_USER_EMAIL))
            => pc = "ready"
    /\ (served.op = "list_tools" /\ ~EDGARTOOLS_AVAILABLE)
            => (Len(served.tools) = 1 /\ served.tools[1].name = "error")
    /\ (served.op = "call_tool" /\ ~EDGARTOOLS_AVAILABLE)
            => (served.run.ret = OneText(Unavailable) /\ served.run.calls = <<>>)

\* C4 as stated: the text of every handler's output is valid JSON, on the
\* success path and on every error path.
C4_AlwaysJson ==
    (served.op = "call_tool" /\ served.name \in ToolNames) =>
        /\ Len(served.run.ret) = 1
        /\ IsValidJson(served.run.ret[1].text)

\* C4 amended: the output text is valid JSON on the success path of
\* get_company_info, get_company_filings, get_insider_transactions and
\* get_financial_statements; on the missing-argument, out-of-range and
\* exception paths of all five handlers it is a plain message, no JSON.
C4_JsonOnSuccess ==
    (served.op = "call_tool" /\ served.name \in ToolNames) =>
        /\ Len(served.run.ret) = 1
        /\ (served.run.path = "success" /\ served.name # "get_filing_text")
                => IsValidJson(served.run.ret[1].text)
        /\ served.run.path \in {"missing", "range", "error"}
                => ~IsValidJson(served.run.ret[1].text)
        /\ served.run.path \in {"success", "missing", "range", "error"}

\* C4 witness: get_insider_transactions returned a non-empty JSON list.
C4_Witness ==
    /\ Called("get_insider_transactions")
    /\ served.run.path = "success"
    /\ Len(served.run.results) >= 2
    /\ IsValidJson(served.run.ret[1].text)

\* the form-filtered collection of an indexed tool's call, from its inputs
Filtered == FilterForm(served.prov.filings, served.arguments.form)

\* the call reached the range check: arguments given, collection obtained
AtRangeCheck ==
    /\ served.op = "call_tool"
    /\ served.name \in IndexedTools
    /\ Reaches(served.arguments, {"ticker", "form"})
    /\ served.prov.fail = "none"

IndexArg == GetInt(served.arguments, "filing_index", DefaultFilingIndex)

\* C5: get_filing_text and get_financial_statements, with filing_index at or
\* past the length of the filtered collection, return "Filing index
\* {filing_index} out of range", index nothing, call neither text() nor
\* obj(), and raise nothing.
C5_OutOfRange ==
    (AtRangeCheck /\ IndexArg >= Len(Filtered)) =>
        /\ served.run.ret = OneText(<<Word("Filing index"),
                                      Tok("num", ToString(IndexArg)),
                                      Word("out of range")>>)
        /\ served.run.selected = <<>>
        /\ \A i \in 1..Len(served.run.calls) : served.run.calls[i] \notin {"text", "obj"}
        /\ served.run.exc = ""

\* C5 witness: filing_index equal to the length of a non-empty collection.
C5_Witness ==
    /\ AtRangeCheck
    /\ Len(Filtered) >= 1
    /\ IndexArg = Len(Filtered)

\* the call is a get_insider_transactions that obtained its collection
InsiderFetched ==
    /\ Called("get_insider_transactions")
    /\ Reaches(served.arguments, {"ticker"})
    /\ served.prov.fail = "none"

InsiderLimit == GetInt(served.arguments, "limit", DefaultLimitInsider)

\* extraction of this obj() outcome fails: obj() raised, or serializing did
ExtractionFails(obj) == IsRaise(obj) \/ IsRaise(serialize_filing_data(obj))

RECURSIVE Extracted(_)
\* the items of the filings whose extraction succeeds, in the filings' order
Extracted(objs) ==
    IF objs = <<>> THEN <<>>
    ELSE (IF ExtractionFails(Head(objs)) THEN <<>>
          ELSE <<serialize_filing_data(Head(objs))>>) \o Extracted(Tail(objs))

\* the obj() outcomes of the K filings the loop went through
LoopObjs == SubSeq(served.prov.objs, 1, Len(served.run.processed))

Failures == Cardinality({i \in 1..Len(LoopObjs) : ExtractionFails(LoopObjs[i])})

FilingsListed ==
    /\ Called("get_company_filings")
    /\ served.run.path = "success"
    /\ GetInt(served.arguments, "limit", DefaultLimitFilings) >= 0

FilingsLimit == GetInt(served.arguments, "limit", DefaultLimitFilings)

\* the form of one item of the returned list
ItemForm(item) == item.items[1][2].s

\* the returned list is the first min(N, number of matching) of matching
IsLimitedPrefix(matching) ==
    /\ Len(served.run.results) <= FilingsLimit
    /\ Len(served.run.results) = Min(FilingsLimit, Len(matching))
    /\ served.run.processed = SubSeq(matching, 1, Len(served.run.results))
    /\ \A i \in 1..Len(served.run.results) :
            /\ ItemForm(served.run.results[i]) = matching[i].form
            /\ served.run.results[i].items[3][2] = matching[i].accession_number
    /\ served.run.ret = OneText(Encode(PyList(served.run.results)))

\* C7 as stated: with limit = N >= 0 the returned list is the first
\* min(N, number of matching filings) filings, in order, and when the form
\* argument is set every returned item's form equals it.
C7_FormWheneverSet ==
    FilingsListed =>
        /\ IsLimitedPrefix(IF "form" \in served.arguments.keys
                           THEN FilterForm(served.prov.filings, served.arguments.form)
                           ELSE served.prov.filings)
        /\ "form" \in served.arguments.keys
                => \A i \in 1..Len(served.run.results) :
                        ItemForm(served.run.results[i]) = served.arguments.form

\* C7 amended: with limit = N >= 0 the returned list is the first
\* min(N, number of matching filings) filings, in order, where the filings
\* matching are those of the given form when the form argument is a
\* non-empty string and all the company's filings when it is absent or
\* empty; with a non-empty form every returned item's form equals it.
C7_FormWhenNonEmpty ==
    FilingsListed =>
        LET given == "form" \in served.arguments.keys /\ served.arguments.form # ""
        IN  /\ IsLimitedPrefix(IF given
                               THEN FilterForm(served.prov.filings, served.arguments.form)
                               ELSE served.prov.filings)
            /\ given => \A i \in 1..Len(served.run.results) :
                            ItemForm(served.run.results[i]) = served.arguments.form

\* C7 witness: a form is given, more filings match it than the limit, and
\* the limit's worth of them is returned.
C7_Witness ==
    /\ FilingsListed
    /\ served.arguments.form = "10-K"
    /\ Len(served.prov.filings) = 3
    /\ Len(FilterForm(served.prov.filings, "10-K")) = 2
    /\ FilingsLimit = 1
    /\ Len(served.run.results) = 1

\* C8: a handler called without a required argument (ticker; form too for
\* get_filing_text and get_financial_statements) returns the text saying
\* what is required, raises nothing and makes no provider call.
C8_RequiredArguments ==
    (served.op = "call_tool" /\ served.name \in ToolNames
        /\ ~Reaches(served.arguments, RequiredOf(served.name))) =>
        /\ served.run.ret =
                OneText(IF served.name \in IndexedTools
                        THEN <<Word("Ticker and form are required")>>
                        ELSE <<Word("Ticker is required")>>)
        /\ served.run.exc = ""
        /\ served.run.calls = <<>>

\* C8 witness: get_filing_text was called with a ticker and without form.
C8_Witness ==
    /\ Called("get_filing_text")
    /\ served.arguments.keys = {"ticker", "filing_index"}
    /\ served.arguments.ticker = "AAPL"
    /\ served.run.path = "missing"

\* a name with the internal-marker prefix
IsInternalName(name) == name # <<>> /\ Head(name) = "_"

RECURSIVE NoInternalKeys(_)
\* no mapping anywhere in v has a key with the internal-marker prefix
NoInternalKeys(v) ==
    /\ v.k = "dict" => \A i \in 1..Len(v.items) :
                            /\ ~IsInternalName(v.items[i][1])
                            /\ NoInternalKeys(v.items[i][2])
    /\ v.k = "list" => \A i \in 1..Len(v.items) : NoInternalKeys(v.items[i])

RECURSIVE UsesToDict(_)
\* v, or a value of v the normalizer descends into, has a to_dict attribute
UsesToDict(v) ==
    \/ Len(v.td) > 0
    \/ /\ v.k = "obj"
       /\ \E i \in 1..Len(v.items) :
            /\ ~IsInternalName(v.items[i][1])
            /\ v.items[i][2].k \in {"obj", "list"}
            /\ UsesToDict(v.items[i][2])
    \/ /\ v.k = "list"
       /\ \E i \in 1..Len(v.items) : UsesToDict(v.items[i])

Normalized == norm.phase = "done" /\ ~IsRaise(norm.out)

\* C9 as stated: for every input, no key of the normalized output starts
\* with '_'.
C9_NoInternalKeysEver ==
    Normalized =>
        (norm.out.k = "dict" =>
            \A i \in 1..Len(norm.out.items) : ~IsInternalName(norm.out.items[i][1]))

\* C9 amended: for every input that has no to_dict attribute, no key of the
\* normalized output starts with '_'; and when no value the normalizer
\* descends into has one either, no key of any nested mapping does.  (The
\* output for a value with to_dict is what to_dict returns, keys unfiltered.)
C9_NoInternalKeysWalked ==
    Normalized =>
        /\ Len(norm.data.td) = 0 =>
                (norm.out.k = "dict" =>
                    \A i \in 1..Len(norm.out.items) :
                        ~IsInternalName(norm.out.items[i][1]))
        /\ ~UsesToDict(norm.data) => NoInternalKeys(norm.out)

\* C9 witness: an object with two internal fields and a public one, none
\* with to_dict, was normalized to a mapping of the public field alone.
C9_Witness ==
    /\ Normalized
    /\ norm.data.k = "obj"
    /\ ~UsesToDict(norm.data)
    /\ Len(norm.data.items) = 3
    /\ norm.data.items[3][2].k = "obj"
    /\ Len(norm.out.items) = 1

\* C10: whenever get_filing_text or get_financial_statements evaluates
\* filings[filing_index], 0 <= filing_index < len(filings).
C10_SelectedIndexValid ==
    (served.op = "call_tool" /\ served.name \in IndexedTools) =>
        \A k \in 1..Len(served.run.selected) :
            /\ 0 <= served.run.selected[k]
            /\ served.run.selected[k] < Len(served.run.filings)

====
